---- MODULE Spec2Model ----
(***************************************************************************)
(* Photo-analysis pipeline (ai-worker) and identity resolver of 11.AI.     *)
(*                                                                         *)
(* The relational store is modelled table by table:                        *)
(*   analysis : analysis_results, keyed by media id (unique)               *)
(*   faces    : face_embeddings, a set of rows with fresh ids              *)
(*   links    : photo_persons, unique on (media, person)                   *)
(*   persons  : persons (each person has a fixed owner, PersonOwner)       *)
(*   ignored  : ignored_faces of the person API, unique on (owner, face)   *)
(* Embeddings are 1-dimensional integer vectors; the L2 distance of two    *)
(* of them is the absolute difference.  One unit is 0.25, so the default   *)
(* threshold 0.5 is 2 units.  Ratios are fractions num/den.                *)
(***************************************************************************)
EXTENDS Integers, Sequences, FiniteSets, TLC

\* ---------------------------------------------------------------- bounds
\* inputs (messages, API requests) the environment sends in one run
MaxMsgs == 2
\* messages sent in one run of the fair specification
MaxLiveMsgs == 1
MaxFaces == 2
\* messages sent, and faces found in a photo, while two workers run
MaxTwoMsgs == 2
MaxTwoFaces == 1
MaxEmb == 3

\* ------------------------------------------------------- program constants
DefaultThreshold == 2
DefaultMinConfirmed == 2
DefaultRatioNum == 17
DefaultRatioDen == 20

CHANNEL_PHOTO_UPLOADED == "photo:uploaded"
CHANNEL_PHOTO_DELETED == "photo:deleted"
CHANNEL_PHOTO_ANALYZED == "photo:analyzed"

\* ------------------------------------------------------------ input sets
Workers == {"w1", "w2"}
Media == {"m1", "m3"}
SeedMedia == {"m1", "m2"}
AllMedia == Media \cup SeedMedia
Owners == {"o1", "o2"}
MsgOwners == {"o1"}
Persons == {"p1", "p2", "p3"}
PersonOwner == [p \in Persons |-> IF p = "p3" THEN "o2" ELSE "o1"]
Absent == "absent"
None == "none"
NullFace == 0
DetVals == {0}

VARIABLES
    analysis,    \* analysis_results: function from the media ids that have a row
    faces,       \* face_embeddings: set of [id, media, person, emb]
    links,       \* photo_persons: set of [media, person, face, confirmed]
    persons,     \* persons: set of person ids
    ignored,     \* ignored_faces: set of [owner, face], unique on (owner, face)
    nextId,      \* the next fresh face id (uuid4)
    published,   \* events published on photo:analyzed, in order
    reindexed,   \* media ids published on photo:reindex, in order
    cfg,         \* environment configuration read by find_similar_face
    active,      \* the worker processes that exist
    pc,          \* per worker: position in main()
    msg,         \* per worker: local `message`
    media_id,    \* per worker: local `media_id` (None while unbound)
    owner_id,    \* per worker: local `owner_id`
    det,         \* per worker: embeddings returned by the detector
    idx,         \* per worker: loop index i (1-based)
    face_count,  \* per worker: local `face_count`
    similar,     \* per worker: local `similar_person`
    face_id,     \* per worker: local `face_id`
    err,         \* per worker: str(e) of the exception being handled
    nmsgs,       \* number of messages read and API requests served so far
    hist,        \* per worker: the last two completed message handlings
    run,         \* per worker: (face id, resolver answer) of the faces saved so far
    resolved,    \* the last resolver query and its answer
    claimed      \* per worker: the media ids this process has set to PROCESSING

dbvars == <<analysis, faces, links, persons, ignored, nextId>>
locals == <<msg, media_id, owner_id, det, idx, face_count, similar, face_id, err>>
vars == <<analysis, faces, links, persons, ignored, nextId, published, reindexed, cfg, active, pc,
          msg, media_id, owner_id, det, idx, face_count, similar, face_id, err,
          nmsgs, hist, run, resolved, claimed>>

\* ----------------------------------------------------------------- helpers
Abs(x) == IF x < 0 THEN 0 - x ELSE x

\* embedding <-> query : L2 distance of 1-dimensional vectors
Distance(a, b) == Abs(a - b)

MinOf(S) == CHOOSE x \in S : \A y \in S : x <= y

HasRow(m) == m \in DOMAIN analysis

FacesOf(m) == {f \in faces : f.media = m}
LinksOf(m) == {l \in links : l.media = m}

\* ------------------------------------------------------ identity resolver
\* The resolver reads three tables: ls (photo_persons), fs (face_embeddings)
\* and ps (persons).
FaceEmb(fs, fid) == (CHOOSE f \in fs : f.id = fid).emb

\* find_similar_face: the configuration read from the environment, normalised
EffMinSamples(c) == IF c.min_samples < 1 THEN 1 ELSE c.min_samples

EffRatio(c) ==
    IF c.ratio_num <= 0 \/ c.ratio_num > c.ratio_den
    THEN [num |-> DefaultRatioNum, den |-> DefaultRatioDen]
    ELSE [num |-> c.ratio_num, den |-> c.ratio_den]

ConfirmedBackedMut(ls, p) ==
    {l \in ls : l.person = p /\ l.face # NullFace}
\* the rows the eligible_persons CTE counts for person p
ConfirmedBacked(ls, p) ==
    {l \in ls : l.person = p /\ l.confirmed /\ l.face # NullFace}

EnoughSamplesMut(n, min_samples) == n >= min_samples - 1
\* HAVING COUNT(*) >= min_samples
EnoughSamples(n, min_samples) == n >= min_samples

\* CTE eligible_persons
EligiblePersons(ls, ps, owner, min_samples) ==
    {p \in ps : /\ PersonOwner[p] = owner
                /\ ConfirmedBacked(ls, p) # {}
                /\ EnoughSamples(Cardinality(ConfirmedBacked(ls, p)), min_samples)}

\* CTE person_distances: the distances MIN() ranges over, i.e. the confirmed
\* links of p joined with face_embeddings
ExemplarDistances(ls, fs, p, q) ==
    {Distance(FaceEmb(fs, l.face), q) :
        l \in {k \in ls : /\ k.person = p /\ k.confirmed
                          /\ \E f \in fs : f.id = k.face}}

MaxOf(S) == CHOOSE x \in S : \A y \in S : x >= y
MinDistanceMut(ls, fs, p, q) == MaxOf(ExemplarDistances(ls, fs, p, q))
\* MIN(fe.embedding <-> query) ... GROUP BY person_id
MinDistance(ls, fs, p, q) == MinOf(ExemplarDistances(ls, fs, p, q))

\* ORDER BY min_distance ASC LIMIT 2: every order the database may return
\* (rows of equal distance come in either order)
RankedResults(ls, fs, ps, q, owner, min_samples) ==
    LET E == {p \in EligiblePersons(ls, ps, owner, min_samples) :
                    ExemplarDistances(ls, fs, p, q) # {}}
        D(p) == MinDistance(ls, fs, p, q)
    IN  IF E = {} THEN {<<>>}
        ELSE IF Cardinality(E) = 1 THEN {<<p>> : p \in E}
        ELSE {r \in {<<b, s>> : b \in E, s \in E} :
                /\ r[1] # r[2]
                /\ \A x \in E : D(r[1]) <= D(x)
                /\ \A x \in E \ {r[1]} : D(r[2]) <= D(x)}

ExceedsThresholdMut(best_distance, threshold) == best_distance > threshold + 1
\* best_distance > threshold
ExceedsThreshold(best_distance, threshold) == best_distance > threshold

FailsMarginMut(best_distance, second_distance, ratio) ==
    best_distance * ratio.den >= second_distance * ratio.num
\* best_distance > second_distance * ratio
FailsMargin(best_distance, second_distance, ratio) ==
    best_distance * ratio.den > second_distance * ratio.num

RejectsSingleMut(n, allow_single) == n = 1 /\ allow_single
\* len(results) == 1 and not allow_single
RejectsSingle(n, allow_single) == n = 1 /\ ~allow_single

\* the Python part of find_similar_face, for one result list
Decide(ls, fs, results, q, c) ==
    IF Len(results) = 0 THEN None
    ELSE IF RejectsSingle(Len(results), c.allow_single) THEN None
    ELSE IF ExceedsThreshold(MinDistance(ls, fs, results[1], q), c.threshold) THEN None
    ELSE IF /\ Len(results) > 1
            /\ FailsMargin(MinDistance(ls, fs, results[1], q),
                           MinDistance(ls, fs, results[2], q), EffRatio(c))
         THEN None
    ELSE results[1]

\* every value find_similar_face may return
FindSimilarFace(ls, fs, ps, q, owner, c) ==
    {Decide(ls, fs, r, q, c) : r \in RankedResults(ls, fs, ps, q, owner, EffMinSamples(c))}

\* ------------------------------------------------------------- messages
\* A pub/sub message: its channel and the shape of its data.  json is FALSE
\* when the data is not valid JSON; a payload key that is missing is Absent
\* (storedKey: FALSE).
Upload(m, o) ==
    [channel |-> CHANNEL_PHOTO_UPLOADED, json |-> TRUE, id |-> m, ownerId |-> o,
     storedKey |-> TRUE, action |-> None]
DeleteEvent(m, o) ==
    [channel |-> CHANNEL_PHOTO_DELETED, json |-> TRUE, id |-> m, ownerId |-> o,
     storedKey |-> FALSE, action |-> "deleted"]
DeleteWithKey(m, o) ==
    [channel |-> CHANNEL_PHOTO_DELETED, json |-> TRUE, id |-> m, ownerId |-> o,
     storedKey |-> TRUE, action |-> None]
ActionDelete(m, o) ==
    [channel |-> CHANNEL_PHOTO_UPLOADED, json |-> TRUE, id |-> m, ownerId |-> o,
     storedKey |-> TRUE, action |-> "deleted"]
BadJson ==
    [channel |-> CHANNEL_PHOTO_UPLOADED, json |-> FALSE, id |-> Absent, ownerId |-> Absent,
     storedKey |-> FALSE, action |-> None]
NoId ==
    [channel |-> CHANNEL_PHOTO_UPLOADED, json |-> TRUE, id |-> Absent, ownerId |-> "o1",
     storedKey |-> TRUE, action |-> None]
NoOwner(m) ==
    [channel |-> CHANNEL_PHOTO_UPLOADED, json |-> TRUE, id |-> m, ownerId |-> Absent,
     storedKey |-> TRUE, action |-> None]

Messages ==
    {Upload(m, o) : m \in Media, o \in MsgOwners}
    \cup {DeleteEvent(m, o) : m \in Media, o \in MsgOwners}
    \cup {DeleteWithKey(m, o) : m \in Media, o \in MsgOwners}
    \cup {ActionDelete(m, o) : m \in Media, o \in MsgOwners}
    \cup {BadJson, NoId}
    \cup {NoOwner(m) : m \in Media}

NoMsg ==
    [channel |-> None, json |-> FALSE, id |-> Absent, ownerId |-> Absent,
     storedKey |-> FALSE, action |-> None]

\* main.py lines 57-65: the outcome of parsing the payload.  raised is the
\* exception text ("" when none); media is the value of the local media_id
\* afterwards, which keeps its old binding when the assignment of line 61
\* is not reached.
ParsePayload(message, old_media_id) ==
    IF ~message.json
    THEN [raised |-> "invalid json", media |-> old_media_id, delete |-> FALSE]
    ELSE IF message.id = Absent
    THEN [raised |-> "'id'", media |-> old_media_id, delete |-> FALSE]
    ELSE IF message.ownerId = Absent
    THEN [raised |-> "'ownerId'", media |-> message.id, delete |-> FALSE]
    ELSE IF ~message.storedKey
    THEN [raised |-> "'storedKey'", media |-> message.id, delete |-> FALSE]
    ELSE [raised |-> "", media |-> message.id,
          delete |-> (message.channel = CHANNEL_PHOTO_DELETED \/ message.action = "deleted")]

\* the detector's possible outputs: up to MaxFaces embeddings.  Every detected
\* face has embedding 0: whether it resolves to a person depends on the links
\* the store holds at that moment.
DetSeqs == UNION {[1..n -> DetVals] : n \in 0..MaxFaces}

\* ------------------------------------------------------- storage layer
NewRow(owner) ==
    [owner |-> owner, status |-> "PENDING", face_count |-> 0, error |-> "",
     stale |-> FALSE]

\* db.py create_analysis: INSERT ... ON CONFLICT (media_id) DO UPDATE SET status
create_analysis(an, m, owner) ==
    IF m \in DOMAIN an
    THEN [an EXCEPT ![m].status = "PENDING", ![m].stale = FALSE]
    ELSE [x \in DOMAIN an \cup {m} |-> IF x = m THEN NewRow(owner) ELSE an[x]]

\* db.py update_analysis_status
update_analysis_status(an, m, status) ==
    IF m \in DOMAIN an
    THEN [an EXCEPT ![m].status = status, ![m].stale = FALSE]
    ELSE an

update_analysis_completeMut(an, m, n) ==
    IF m \in DOMAIN an
    THEN [an EXCEPT ![m].status = "DONE", ![m].face_count = an[m].face_count + n,
                    ![m].stale = FALSE]
    ELSE an
\* db.py update_analysis_complete
update_analysis_complete(an, m, n) ==
    IF m \in DOMAIN an
    THEN [an EXCEPT ![m].status = "DONE", ![m].face_count = n, ![m].stale = FALSE]
    ELSE an

update_analysis_errorMut(an, m, error_message) ==
    IF m \in DOMAIN an
    THEN [an EXCEPT ![m].error = error_message, ![m].stale = FALSE]
    ELSE an
\* db.py update_analysis_error
update_analysis_error(an, m, error_message) ==
    IF m \in DOMAIN an
    THEN [an EXCEPT ![m].status = "FAILED", ![m].error = error_message,
                    ![m].stale = FALSE]
    ELSE an

link_photo_personConfirms(ls, m, p, fid, confirmed) ==
    {l \in ls : ~(l.media = m /\ l.person = p)}
    \cup {[media |-> m, person |-> p, face |-> fid, confirmed |-> TRUE]}
link_photo_personKeeps(ls, m, p, fid, confirmed) ==
    IF \E l \in ls : l.media = m /\ l.person = p THEN ls
    ELSE ls \cup {[media |-> m, person |-> p, face |-> fid, confirmed |-> confirmed]}
link_photo_personInserts(ls, m, p, fid, confirmed) ==
    ls \cup {[media |-> m, person |-> p, face |-> fid, confirmed |-> confirmed]}
\* db.py link_photo_person: INSERT ... ON CONFLICT (media_id, person_id) DO UPDATE
link_photo_person(ls, m, p, fid, confirmed) ==
    {l \in ls : ~(l.media = m /\ l.person = p)}
    \cup {[media |-> m, person |-> p, face |-> fid, confirmed |-> confirmed]}

\* Database.mark_stale_processing: rows in PROCESSING whose updated_at is
\* older than the timeout (stale) become FAILED with a stale-timeout error
mark_stale_processing(an) ==
    [m \in DOMAIN an |->
        IF an[m].status = "PROCESSING" /\ an[m].stale
        THEN [an[m] EXCEPT !.status = "FAILED", !.error = "stale timeout", !.stale = FALSE]
        ELSE an[m]]

\* person-api assign_face_to_person: UPDATE face_embeddings SET person_id
assign_person(fs, fid, p) ==
    {IF f.id = fid THEN [f EXCEPT !.person = p] ELSE f : f \in fs}

\* person-api assign_face_to_person and ignore_face: DELETE FROM photo_persons
\* WHERE face_embedding_id = fid AND confirmed = false
delete_suggestions(ls, fid) == {l \in ls : ~(l.face = fid /\ ~l.confirmed)}

\* person-api assign_face_to_person: INSERT ... ON CONFLICT (media_id, person_id)
\* DO UPDATE SET face_embedding_id, confirmed = true
assign_link(ls, m, p, fid) ==
    {l \in ls : ~(l.media = m /\ l.person = p)}
    \cup {[media |-> m, person |-> p, face |-> fid, confirmed |-> TRUE]}

\* person-api list_unassigned_faces: the faces on the user's photos that no
\* confirmed link names and that the photo's owner has not ignored
list_unassigned_faces(fs, an, ls, ig, user) ==
    {f.id : f \in {g \in fs :
        /\ g.media \in DOMAIN an
        /\ an[g.media].owner = user
        /\ ~\E l \in ls : l.face = g.id /\ l.confirmed
        /\ [owner |-> an[g.media].owner, face |-> g.id] \notin ig}}

\* person-api get_analysis_status: the row, or 404
get_analysis_status(m, user) ==
    IF m \in DOMAIN analysis /\ analysis[m].owner = user THEN analysis[m].status ELSE "404"

\* Database.delete_media_records: the cascade delete for one media id
delete_faces(fs, m) == {f \in fs : f.media # m}
delete_links(ls, m) == {l \in ls : l.media # m}
delete_analysis(an, m) == [x \in DOMAIN an \ {m} |-> an[x]]

\* ------------------------------------------------------------ initial state
DefaultCfg ==
    [threshold |-> DefaultThreshold, min_samples |-> DefaultMinConfirmed,
     ratio_num |-> DefaultRatioNum, ratio_den |-> DefaultRatioDen,
     allow_single |-> FALSE]

DoneRow(owner, n) ==
    [owner |-> owner, status |-> "DONE", face_count |-> n, error |-> "", stale |-> FALSE]

\* The store the worker starts on: two photos analysed earlier, whose faces
\* the owner has assigned to persons p1 and p2 through the person API.
SeedFaces ==
    {[id |-> 1, media |-> "m1", person |-> "p1", emb |-> 0],
     [id |-> 2, media |-> "m1", person |-> "p2", emb |-> 3],
     [id |-> 3, media |-> "m2", person |-> "p1", emb |-> 1],
     [id |-> 4, media |-> "m2", person |-> "p2", emb |-> 3]}
SeedLinks ==
    {[media |-> f.media, person |-> f.person, face |-> f.id, confirmed |-> TRUE] :
        f \in SeedFaces}
SeedAnalysis == [m \in SeedMedia |-> DoneRow("o1", 2)]

NoResolve == [q |-> 0, owner |-> None, result |-> None, asked |-> FALSE]

InitLocals ==
    /\ pc = [w \in Workers |-> "start"]
    /\ msg = [w \in Workers |-> NoMsg]
    /\ media_id = [w \in Workers |-> None]
    /\ owner_id = [w \in Workers |-> None]
    /\ det = [w \in Workers |-> <<>>]
    /\ idx = [w \in Workers |-> 1]
    /\ face_count = [w \in Workers |-> 0]
    /\ similar = [w \in Workers |-> None]
    /\ face_id = [w \in Workers |-> NullFace]
    /\ err = [w \in Workers |-> ""]
    /\ hist = [w \in Workers |-> <<>>]
    /\ run = [w \in Workers |-> <<>>]
    /\ claimed = [w \in Workers |-> {}]
    /\ nmsgs = 0
    /\ published = <<>>
    /\ reindexed = <<>>

Init ==
    /\ analysis = SeedAnalysis
    /\ faces = SeedFaces
    /\ links = SeedLinks
    /\ persons = Persons
    /\ ignored = {}
    /\ nextId = 5
    /\ cfg = DefaultCfg
    /\ active = {"w1"}
    /\ resolved = NoResolve
    /\ InitLocals

\* ------------------------------------------------------------------ worker
StatusOf(an, m) == IF m \in DOMAIN an THEN an[m].status ELSE "NONE"
CountOf(an, m) == IF m \in DOMAIN an THEN an[m].face_count ELSE 0

\* history: the message whose handling just ended, how it ended, and the
\* AnalysisResult of the message's media id at that moment
Handled(w, outcome, an) ==
    [msg |-> msg[w], det |-> det[w], run |-> run[w], outcome |-> outcome,
     status |-> StatusOf(an, msg[w].id), count |-> CountOf(an, msg[w].id)]

Record(w, outcome, an) ==
    LET h == Append(hist[w], Handled(w, outcome, an))
    IN  hist' = [hist EXCEPT ![w] = IF Len(h) > 2 THEN Tail(h) ELSE h]

\* the locals that are dead once the handling of a message has ended
ResetScratch(w) ==
    /\ det' = [det EXCEPT ![w] = <<>>]
    /\ idx' = [idx EXCEPT ![w] = 1]
    /\ face_count' = [face_count EXCEPT ![w] = 0]
    /\ similar' = [similar EXCEPT ![w] = None]
    /\ face_id' = [face_id EXCEPT ![w] = NullFace]
    /\ err' = [err EXCEPT ![w] = ""]
    /\ run' = [run EXCEPT ![w] = <<>>]

StartupMut(w) ==
    /\ w \in active
    /\ pc[w] = "start"
    /\ pc' = [pc EXCEPT ![w] = "listen"]
    /\ UNCHANGED <<analysis, faces, links, persons, ignored, nextId, published, reindexed,
                   cfg, active, locals, nmsgs, hist, run, resolved, claimed>>
\* main.py line 44: the sweep at startup
Startup(w) ==
    /\ w \in active
    /\ pc[w] = "start"
    /\ analysis' = mark_stale_processing(analysis)
    /\ pc' = [pc EXCEPT ![w] = "listen"]
    /\ UNCHANGED <<faces, links, persons, ignored, nextId, published, reindexed, cfg, active, locals,
                   nmsgs, hist, run, resolved, claimed>>

\* main.py lines 47-68: read a message, sweep, parse the payload
ReceiveFrom(w, n, sent) ==
    /\ w \in active
    /\ pc[w] = "listen"
    /\ nmsgs < n
    /\ \E message \in sent :
        LET parsed == ParsePayload(message, media_id[w])
        IN  /\ msg' = [msg EXCEPT ![w] = message]
            /\ media_id' = [media_id EXCEPT ![w] = parsed.media]
            /\ owner_id' = [owner_id EXCEPT ![w] =
                    IF message.json /\ message.id # Absent /\ message.ownerId # Absent
                    THEN message.ownerId ELSE owner_id[w]]
            /\ err' = [err EXCEPT ![w] = parsed.raised]
            /\ pc' = [pc EXCEPT ![w] =
                    IF parsed.raised # "" THEN "except"
                    ELSE IF parsed.delete THEN "delete" ELSE "create"]
    /\ analysis' = mark_stale_processing(analysis)
    /\ nmsgs' = nmsgs + 1
    /\ UNCHANGED <<faces, links, persons, ignored, nextId, published, reindexed, cfg, active,
                   det, idx, face_count, similar, face_id, hist, run, resolved, claimed>>

ReceiveUpTo(w, n) == ReceiveFrom(w, n, Messages)

Receive(w) == ReceiveUpTo(w, MaxMsgs)

\* main.py lines 65-68: the delete path
DeleteMedia(w) ==
    /\ w \in active
    /\ pc[w] = "delete"
    /\ faces' = delete_faces(faces, media_id[w])
    /\ links' = delete_links(links, media_id[w])
    /\ analysis' = delete_analysis(analysis, media_id[w])
    /\ Record(w, "deleted", analysis')
    /\ pc' = [pc EXCEPT ![w] = "listen"]
    /\ ResetScratch(w)
    /\ ignored' = {g \in ignored : \E f \in faces' : f.id = g.face}
    /\ UNCHANGED <<persons, nextId, published, reindexed, cfg, active, msg, media_id, owner_id,
                   nmsgs, resolved, claimed>>

\* main.py line 73
CreateAnalysis(w) ==
    /\ w \in active
    /\ pc[w] = "create"
    /\ analysis' = create_analysis(analysis, media_id[w], owner_id[w])
    /\ pc' = [pc EXCEPT ![w] = "status"]
    /\ UNCHANGED <<faces, links, persons, ignored, nextId, published, reindexed, cfg, active, locals,
                   nmsgs, hist, run, resolved, claimed>>

\* main.py line 74
UpdateStatus(w) ==
    /\ w \in active
    /\ pc[w] = "status"
    /\ analysis' = update_analysis_status(analysis, media_id[w], "PROCESSING")
    /\ pc' = [pc EXCEPT ![w] = "analyze"]
    /\ claimed' = [claimed EXCEPT ![w] = claimed[w] \cup {media_id[w]}]
    /\ UNCHANGED <<faces, links, persons, ignored, nextId, published, reindexed, cfg, active, locals,
                   nmsgs, hist, run, resolved>>

\* main.py lines 77-86: download, EXIF, detection; any of them may raise
AnalyzeFrom(w, found) ==
    /\ w \in active
    /\ pc[w] = "analyze"
    /\ \/ /\ err' = [err EXCEPT ![w] = "analysis failed"]
          /\ pc' = [pc EXCEPT ![w] = "except"]
          /\ UNCHANGED <<det, idx, face_count>>
       \/ \E d \in found :
            /\ det' = [det EXCEPT ![w] = d]
            /\ idx' = [idx EXCEPT ![w] = 1]
            /\ face_count' = [face_count EXCEPT ![w] = 0]
            /\ pc' = [pc EXCEPT ![w] = IF Len(d) = 0 THEN "complete" ELSE "find"]
            /\ UNCHANGED err
    /\ UNCHANGED <<dbvars, published, reindexed, cfg, active, msg, media_id, owner_id, similar,
                   face_id, nmsgs, hist, run, resolved, claimed>>

Analyze(w) == AnalyzeFrom(w, DetSeqs)

\* main.py lines 89-94
FindSimilar(w) ==
    /\ w \in active
    /\ pc[w] = "find"
    /\ \E r \in FindSimilarFace(links, faces, persons, det[w][idx[w]], owner_id[w], cfg) :
            similar' = [similar EXCEPT ![w] = r]
    /\ pc' = [pc EXCEPT ![w] = "save"]
    /\ UNCHANGED <<dbvars, published, reindexed, cfg, active, msg, media_id, owner_id, det, idx,
                   face_count, face_id, err, nmsgs, hist, run, resolved, claimed>>

NextFaceMut(w) ==
    /\ face_count' = [face_count EXCEPT ![w] =
            IF similar[w] # None THEN face_count[w] + 1 ELSE face_count[w]]
    /\ idx' = [idx EXCEPT ![w] = idx[w] + 1]
    /\ pc' = [pc EXCEPT ![w] = IF idx[w] = Len(det[w]) THEN "complete" ELSE "find"]
\* the end of one iteration of the face loop: main.py line 108 and the loop test
NextFace(w) ==
    /\ face_count' = [face_count EXCEPT ![w] = face_count[w] + 1]
    /\ idx' = [idx EXCEPT ![w] = idx[w] + 1]
    /\ pc' = [pc EXCEPT ![w] = IF idx[w] = Len(det[w]) THEN "complete" ELSE "find"]

NewFaceMut(fid, m, e) == [id |-> fid, media |-> m, person |-> "p1", emb |-> e]
\* db.py save_face_embedding: the new row
NewFace(fid, m, e) == [id |-> fid, media |-> m, person |-> None, emb |-> e]

\* main.py lines 97-104: save the embedding (or a storage error is raised)
SaveFace(w) ==
    /\ w \in active
    /\ pc[w] = "save"
    /\ \/ /\ err' = [err EXCEPT ![w] = "storage error"]
          /\ pc' = [pc EXCEPT ![w] = "except"]
          /\ UNCHANGED <<faces, nextId, face_id, face_count, idx, run>>
       \/ /\ faces' = faces \cup {NewFace(nextId, media_id[w], det[w][idx[w]])}
          /\ nextId' = nextId + 1
          /\ face_id' = [face_id EXCEPT ![w] = nextId]
          /\ run' = [run EXCEPT ![w] = Append(run[w], [face |-> nextId, person |-> similar[w]])]
          /\ IF similar[w] # None
             THEN /\ pc' = [pc EXCEPT ![w] = "link"]
                  /\ UNCHANGED <<face_count, idx>>
             ELSE NextFace(w)
          /\ UNCHANGED err
    /\ UNCHANGED <<analysis, links, persons, ignored, published, reindexed, cfg, active, msg, media_id,
                   owner_id, det, similar, nmsgs, hist, resolved, claimed>>

\* main.py lines 104-108
LinkPerson(w) ==
    /\ w \in active
    /\ pc[w] = "link"
    /\ links' = link_photo_person(links, media_id[w], similar[w], face_id[w], FALSE)
    /\ NextFace(w)
    /\ UNCHANGED <<analysis, faces, persons, ignored, nextId, published, reindexed, cfg, active, msg,
                   media_id, owner_id, det, similar, face_id, err, nmsgs, hist, run, resolved, claimed>>

CompleteMut(w) ==
    /\ w \in active
    /\ pc[w] = "complete"
    /\ pc' = [pc EXCEPT ![w] = "publish"]
    /\ UNCHANGED <<dbvars, published, reindexed, cfg, active, locals, nmsgs, hist, run,
                   resolved, claimed>>
\* main.py lines 111-119
Complete(w) ==
    /\ w \in active
    /\ pc[w] = "complete"
    /\ analysis' = update_analysis_complete(analysis, media_id[w], face_count[w])
    /\ pc' = [pc EXCEPT ![w] = "publish"]
    /\ UNCHANGED <<faces, links, persons, ignored, nextId, published, reindexed, cfg, active, locals,
                   nmsgs, hist, run, resolved, claimed>>

\* main.py lines 122-128: publish photo:analyzed; the publish may raise
Publish(w) ==
    /\ w \in active
    /\ pc[w] = "publish"
    /\ \/ /\ published' = Append(published,
                [mediaId |-> media_id[w], status |-> "DONE", faceCount |-> face_count[w]])
          /\ Record(w, "ok", analysis)
          /\ pc' = [pc EXCEPT ![w] = "listen"]
          /\ ResetScratch(w)
       \/ /\ err' = [err EXCEPT ![w] = "publish failed"]
          /\ pc' = [pc EXCEPT ![w] = "except"]
          /\ UNCHANGED <<published, hist, run, det, idx, face_count, similar, face_id>>
    /\ UNCHANGED <<dbvars, reindexed, cfg, active, msg, media_id, owner_id, nmsgs, resolved, claimed>>

HandleErrorMut(w) ==
    /\ w \in active
    /\ pc[w] = "except"
    /\ analysis' = IF media_id[w] # None
                   THEN update_analysis_error(analysis, media_id[w], err[w])
                   ELSE analysis
    /\ faces' = delete_faces(faces, media_id[w])
    /\ links' = delete_links(links, media_id[w])
    /\ Record(w, err[w], analysis')
    /\ pc' = [pc EXCEPT ![w] = "listen"]
    /\ ResetScratch(w)
    /\ UNCHANGED <<persons, ignored, nextId, published, reindexed, cfg, active, msg,
                   media_id, owner_id, nmsgs, resolved, claimed>>
\* main.py lines 130-134: the handler at the loop boundary
HandleError(w) ==
    /\ w \in active
    /\ pc[w] = "except"
    /\ analysis' = IF media_id[w] # None
                   THEN update_analysis_error(analysis, media_id[w], err[w])
                   ELSE analysis
    /\ Record(w, err[w], analysis')
    /\ pc' = [pc EXCEPT ![w] = "listen"]
    /\ ResetScratch(w)
    /\ UNCHANGED <<faces, links, persons, ignored, nextId, published, reindexed, cfg, active, msg,
                   media_id, owner_id, nmsgs, resolved, claimed>>

\* the worker process is killed and started again: main() runs from the top
Crash(w) ==
    /\ w \in active
    /\ pc[w] \notin {"start"}
    /\ pc' = [pc EXCEPT ![w] = "start"]
    /\ msg' = [msg EXCEPT ![w] = NoMsg]
    /\ media_id' = [media_id EXCEPT ![w] = None]
    /\ owner_id' = [owner_id EXCEPT ![w] = None]
    /\ ResetScratch(w)
    /\ hist' = [hist EXCEPT ![w] = <<>>]
    /\ claimed' = [claimed EXCEPT ![w] = {}]
    /\ UNCHANGED <<dbvars, published, reindexed, cfg, active, nmsgs, resolved>>

\* time passes: a row left in PROCESSING becomes older than the timeout
Age(m) ==
    /\ m \in DOMAIN analysis
    /\ analysis[m].status = "PROCESSING"
    /\ ~analysis[m].stale
    /\ analysis' = [analysis EXCEPT ![m].stale = TRUE]
    /\ UNCHANGED <<faces, links, persons, ignored, nextId, published, reindexed, cfg, active, pc, locals,
                   nmsgs, hist, run, resolved, claimed>>

\* the steps of a worker other than reading a message
Stage(w) ==
    \/ Startup(w)
    \/ DeleteMedia(w)
    \/ CreateAnalysis(w)
    \/ UpdateStatus(w)
    \/ Analyze(w)
    \/ FindSimilar(w)
    \/ SaveFace(w)
    \/ LinkPerson(w)
    \/ Complete(w)
    \/ Publish(w)
    \/ HandleError(w)
    \/ Crash(w)

WorkerStep(w) == Receive(w) \/ Stage(w)

Next ==
    \/ \E w \in Workers : WorkerStep(w)
    \/ \E m \in AllMedia : Age(m)

Spec == Init /\ [][Next]_vars

TypeOK ==
    /\ \A m \in DOMAIN analysis : analysis[m].status \in {"PENDING", "PROCESSING", "DONE", "FAILED"}
    /\ \A l \in links : l.person \in Persons

\* ------------------------------------------------------------ two workers
\* two worker processes subscribed to the same channels on the same store
InitTwo ==
    /\ analysis = SeedAnalysis
    /\ faces = SeedFaces
    /\ links = SeedLinks
    /\ persons = Persons
    /\ ignored = {}
    /\ nextId = 5
    /\ cfg = DefaultCfg
    /\ active = Workers
    /\ resolved = NoResolve
    /\ InitLocals

\* the events sent while two workers run: uploads of one new photo
Uploads == {Upload("m3", o) : o \in MsgOwners}

ReceiveTwo(w) == ReceiveFrom(w, MaxTwoMsgs, Uploads)

AnalyzeTwo(w) == AnalyzeFrom(w, UNION {[1..n -> DetVals] : n \in 0..MaxTwoFaces})

NextTwo ==
    \/ \E w \in Workers :
        \/ Startup(w)
        \/ ReceiveTwo(w)
        \/ CreateAnalysis(w)
        \/ UpdateStatus(w)
        \/ AnalyzeTwo(w)
        \/ FindSimilar(w)
        \/ SaveFace(w)
        \/ LinkPerson(w)
        \/ Complete(w)
        \/ Publish(w)
        \/ HandleError(w)
        \/ Crash(w)
    \/ \E m \in AllMedia : Age(m)

SpecTwo == InitTwo /\ [][NextTwo]_vars

\* ---------------------------------------------------- the pipeline, fair
\* a message arrives for the worker, or the worker process is started again
ReceiveLive(w) == ReceiveUpTo(w, MaxLiveMsgs)

Arrives(w) == ReceiveLive(w) \/ Crash(w)

NextLive ==
    \/ \E w \in Workers : ReceiveLive(w) \/ Stage(w)
    \/ \E m \in AllMedia : Age(m)

\* A started process runs its startup, time passes for a row in PROCESSING,
\* and every worker again and again gets a message or is restarted.
Fairness ==
    /\ \A w \in Workers : WF_vars(Startup(w)) /\ WF_vars(Arrives(w))
    /\ \A m \in AllMedia : WF_vars(Age(m))

SpecLive == Init /\ [][NextLive]_vars /\ Fairness

\* ------------------------------------------- the pipeline and the person API
\* person-api assign_face_to_person, one transaction; a request for a person
\* the user does not own or for an unknown face changes nothing (404)
AssignFace(fid, p, user) ==
    /\ nmsgs < MaxMsgs
    /\ nmsgs' = nmsgs + 1
    /\ IF /\ p \in persons /\ PersonOwner[p] = user
          /\ \E f \in faces : f.id = fid
       THEN LET m == (CHOOSE f \in faces : f.id = fid).media
            IN  /\ faces' = assign_person(faces, fid, p)
                /\ ignored' = ignored \ {[owner |-> user, face |-> fid]}
                /\ links' = assign_link(delete_suggestions(links, fid), m, p, fid)
                /\ \/ reindexed' = Append(reindexed, m)
                   \/ UNCHANGED reindexed
       ELSE UNCHANGED <<faces, ignored, links, reindexed>>
    /\ UNCHANGED <<analysis, persons, nextId, published, cfg, active, pc, locals,
                   hist, run, resolved, claimed>>

\* person-api ignore_face, one transaction; 404 when the face is not on a
\* photo whose AnalysisResult the user owns
IgnoreFace(fid, user) ==
    /\ nmsgs < MaxMsgs
    /\ nmsgs' = nmsgs + 1
    /\ IF \E f \in faces : /\ f.id = fid /\ f.media \in DOMAIN analysis
                            /\ analysis[f.media].owner = user
       THEN /\ ignored' = ignored \cup {[owner |-> user, face |-> fid]}
            /\ links' = delete_suggestions(links, fid)
       ELSE UNCHANGED <<ignored, links>>
    /\ UNCHANGED <<analysis, faces, persons, nextId, published, reindexed, cfg, active,
                   pc, locals, hist, run, resolved, claimed>>

NextAdmin ==
    \/ Next
    \/ \E fid \in 1..nextId, p \in Persons, user \in Owners : AssignFace(fid, p, user)
    \/ \E fid \in 1..nextId, user \in Owners : IgnoreFace(fid, user)

SpecAdmin == Init /\ [][NextAdmin]_vars

\* -------------------------------------------- the resolver on its own
\* One photo_persons slot per (media, person): the link is absent, or it is
\* a confirmed link backed by a face of some embedding, or a confirmed link
\* without a face, or an unconfirmed suggestion.
SlotKinds ==
    {[kind |-> "absent", emb |-> 0], [kind |-> "nullface", emb |-> 0],
     [kind |-> "suggested", emb |-> 0]}
    \cup {[kind |-> "confirmed", emb |-> e] : e \in 0..MaxEmb}

SlotChoices(p) ==
    IF PersonOwner[p] = "o1" THEN SlotKinds
    ELSE {[kind |-> "absent", emb |-> 0], [kind |-> "confirmed", emb |-> 0]}

Slots == SeedMedia \X Persons

SlotId(s) ==
    (IF s[1] = "m1" THEN 0 ELSE 3)
    + (IF s[2] = "p1" THEN 1 ELSE IF s[2] = "p2" THEN 2 ELSE 3)

FacesFromSlots(draw) ==
    {[id |-> SlotId(s), media |-> s[1],
      person |-> IF draw[s].kind = "confirmed" THEN s[2] ELSE None,
      emb |-> draw[s].emb] : s \in {t \in Slots : draw[t].kind \in {"confirmed", "suggested"}}}

LinksFromSlots(draw) ==
    {[media |-> s[1], person |-> s[2],
      face |-> IF draw[s].kind = "nullface" THEN NullFace ELSE SlotId(s),
      confirmed |-> draw[s].kind # "suggested"] : s \in {t \in Slots : draw[t].kind # "absent"}}

ResolveCfgs ==
    {[threshold |-> DefaultThreshold, min_samples |-> n, ratio_num |-> r[1],
      ratio_den |-> r[2], allow_single |-> a] :
        n \in {1, DefaultMinConfirmed},
        r \in {<<DefaultRatioNum, DefaultRatioDen>>, <<1, 2>>},
        a \in BOOLEAN}

QueryVals == {0, 1}

InitResolve ==
    /\ \E draw \in [Slots -> SlotKinds] :
        /\ \A s \in Slots : draw[s] \in SlotChoices(s[2])
        /\ faces = FacesFromSlots(draw)
        /\ links = LinksFromSlots(draw)
    /\ analysis = SeedAnalysis
    /\ persons = Persons
    /\ ignored = {}
    /\ nextId = 7
    /\ cfg \in ResolveCfgs
    /\ active = {}
    /\ resolved = NoResolve
    /\ InitLocals

\* db.py find_similar_face applied to one query
Resolve(q, owner) ==
    /\ \E r \in FindSimilarFace(links, faces, persons, q, owner, cfg) :
            resolved' = [q |-> q, owner |-> owner, result |-> r, asked |-> TRUE]
    /\ UNCHANGED <<dbvars, published, reindexed, cfg, active, pc, locals, nmsgs, hist, run,
                   claimed>>

NextResolve == \E q \in QueryVals, owner \in Owners : Resolve(q, owner)

SpecResolve == InitResolve /\ [][NextResolve]_vars

\* ================================================================ claims
\* ----------------------------------------------------- pipeline (Spec)
IsUpload(message) ==
    /\ message.json /\ message.id # Absent /\ message.ownerId # Absent /\ message.storedKey
    /\ message.channel = CHANNEL_PHOTO_UPLOADED /\ message.action # "deleted"

\* a delete event: on photo:deleted or with action "deleted", carrying id and ownerId
IsDeleteEvent(message) ==
    /\ message.json /\ message.id # Absent /\ message.ownerId # Absent
    /\ (message.channel = CHANNEL_PHOTO_DELETED \/ message.action = "deleted")

\* the media id a message's own payload names
Names(message, m) == message.json /\ message.id = m

AbsentRow ==
    [owner |-> None, status |-> "NONE", face_count |-> 0, error |-> "", stale |-> FALSE]
RowOf(an, m) == IF m \in DOMAIN an THEN an[m] ELSE AbsentRow

LastHandled(w) == hist[w][Len(hist[w])]

\* the handling of a message by w has just ended and nothing was read since
JustHandled(w) == w \in active /\ pc[w] = "listen" /\ Len(hist[w]) > 0

AllowedMove(old, new) ==
    \/ new = old
    \/ new = "PENDING"
    \/ new = "NONE"
    \/ old = "PENDING" /\ new = "PROCESSING"
    \/ old = "PROCESSING" /\ new \in {"DONE", "FAILED"}

\* C1: every change of an AnalysisResult's status is a move of the state
\* machine: to PENDING from anything, PENDING -> PROCESSING, PROCESSING -> DONE,
\* PROCESSING -> FAILED (or the row is deleted).
C1_StateMachine ==
    [][\A m \in AllMedia : AllowedMove(StatusOf(analysis, m), StatusOf(analysis', m))]_vars

\* C2: the error handler changes no AnalysisResult other than that of the
\* media id named in the failing message's own payload; when the payload
\* names none, no row changes.
C2_Isolation ==
    [][\A w \in Workers : (pc[w] = "except" /\ pc'[w] = "listen") =>
            \A m \in AllMedia :
                RowOf(analysis', m) # RowOf(analysis, m) => Names(msg[w], m)]_vars

\* C3: the error handler returns to the loop, and when the payload named a
\* media id that id's AnalysisResult is FAILED with the exception's message.
C3_CaughtAndFailed ==
    [][\A w \in Workers : (pc[w] = "except" /\ pc'[w] \notin {"except", "start"}) =>
            /\ pc'[w] = "listen"
            /\ \A m \in AllMedia : Names(msg[w], m) =>
                    /\ StatusOf(analysis', m) = "FAILED"
                    /\ RowOf(analysis', m).error = err[w]]_vars

\* C4: once a delete event for m has been handled, nothing of m remains and
\* a status query for m answers not found.
C4_DeleteRemovesAll ==
    \A w \in Workers : (JustHandled(w) /\ IsDeleteEvent(LastHandled(w).msg)) =>
        LET m == LastHandled(w).msg.id
        IN  /\ FacesOf(m) = {}
            /\ LinksOf(m) = {}
            /\ m \notin DOMAIN analysis
            /\ \A o \in Owners : get_analysis_status(m, o) = "404"

\* C5: a handling that ended because the publish failed leaves the row DONE
\* with the face count of that run.
C5_PublishBestEffort ==
    \A w \in Workers : (JustHandled(w) /\ LastHandled(w).outcome = "publish failed") =>
        /\ LastHandled(w).status = "DONE"
        /\ LastHandled(w).count = Len(LastHandled(w).det)

\* C6: create_analysis leaves the row PENDING whatever it was; the handling
\* of an upload ends with the row DONE or FAILED; and handling the same
\* upload twice in a row, with the same detector output and the same
\* outcome, ends with the same status and face_count as the first time.
C6_Idempotent ==
    \A w \in active :
        /\ pc[w] = "status" => StatusOf(analysis, media_id[w]) = "PENDING"
        /\ \A i \in 1..Len(hist[w]) :
                IsUpload(hist[w][i].msg) => hist[w][i].status \in {"DONE", "FAILED"}
        /\ (/\ Len(hist[w]) = 2
            /\ IsUpload(hist[w][1].msg)
            /\ hist[w][1].msg = hist[w][2].msg
            /\ hist[w][1].det = hist[w][2].det
            /\ hist[w][1].outcome = hist[w][2].outcome)
           => /\ hist[w][1].status = hist[w][2].status
              /\ hist[w][1].count = hist[w][2].count

\* C6 witness: the same upload handled twice to completion with faces
\* detected, the second time on a row that was DONE
C6_Witness ==
    \E w \in active :
        /\ JustHandled(w)
        /\ Len(hist[w]) = 2
        /\ IsUpload(hist[w][1].msg)
        /\ hist[w][1].msg = hist[w][2].msg
        /\ hist[w][1].det = hist[w][2].det
        /\ Len(hist[w][1].det) > 0
        /\ hist[w][1].outcome = "ok"
        /\ hist[w][2].outcome = "ok"

\* C7: when every upload of a photo was handled to successful completion
\* (the detector finding the same faces each time), the photo has as many FaceEmbedding rows as faces were detected, which is
\* the face_count of its DONE row.
C7_OneRowPerFace ==
    \A w \in Workers :
        (/\ JustHandled(w)
         /\ Len(hist[w]) = nmsgs
         /\ IsUpload(LastHandled(w).msg)
         /\ LastHandled(w).msg.id \notin SeedMedia
         /\ \A i \in 1..Len(hist[w]) :
                Names(hist[w][i].msg, LastHandled(w).msg.id) =>
                    /\ IsUpload(hist[w][i].msg)
                    /\ hist[w][i].outcome = "ok"
                    /\ hist[w][i].det = LastHandled(w).det)
        => LET m == LastHandled(w).msg.id
           IN  /\ StatusOf(analysis, m) = "DONE"
               /\ Cardinality(FacesOf(m)) = Len(LastHandled(w).det)
               /\ Cardinality(FacesOf(m)) = analysis[m].face_count

\* the store as the resolver would see it without the unconfirmed links
ConfirmedOnly(ls) == {l \in ls : l.confirmed}

\* p has enough confirmed exemplars in the store (ls, fs)
EligibleIn(ls, fs, p) ==
    LET n == Cardinality({l \in ls : /\ l.person = p /\ l.confirmed
                                      /\ \E f \in fs : f.id = l.face})
    IN  n >= 1 /\ n >= cfg.min_samples

\* C13: the resolver's answers for a detected face are those it gives on the
\* store without the unconfirmed links, and no step of the pipeline makes a
\* person eligible that was not eligible before the step.
C13_UnconfirmedIgnored ==
    [][/\ \A w \in active : pc[w] = "find" =>
            FindSimilarFace(links, faces, persons, det[w][idx[w]], owner_id[w], cfg)
              = FindSimilarFace(ConfirmedOnly(links), faces, persons,
                                det[w][idx[w]], owner_id[w], cfg)
       /\ \A p \in Persons :
            EligibleIn(links', faces', p) => EligibleIn(links, faces, p)]_vars

\* C13 witness: a face is being resolved while a person of the owner has too
\* few confirmed exemplars but would have enough if suggestions counted
C13_Witness ==
    \E w \in active :
        /\ pc[w] = "find"
        /\ \E p \in persons :
            /\ PersonOwner[p] = owner_id[w]
            /\ ~EligibleIn(links, faces, p)
            /\ Cardinality({l \in links : /\ l.person = p
                                           /\ \E f \in faces : f.id = l.face})
                    >= cfg.min_samples

ConfirmedLinks(ls) == {l \in ls : l.confirmed}

\* C15: no step of the pipeline adds a confirmed link (so none is created
\* confirmed, none turns from unconfirmed to confirmed, and their number never
\* grows), and the link step leaves the link of its pair unconfirmed.
C15_NeverConfirms ==
    [][/\ ConfirmedLinks(links') \subseteq ConfirmedLinks(links)
       /\ Cardinality(ConfirmedLinks(links')) <= Cardinality(ConfirmedLinks(links))
       /\ \A w \in active : (pc[w] = "link" /\ pc'[w] \notin {"link", "start"}) =>
            \E l \in links' : /\ l.media = media_id[w] /\ l.person = similar[w]
                               /\ l.face = face_id[w] /\ ~l.confirmed]_vars

\* C15 witness: an upload was handled to completion and the photo has a link
\* written by the pipeline
C15_Witness ==
    \E w \in active :
        /\ JustHandled(w)
        /\ LastHandled(w).outcome = "ok"
        /\ \E l \in links : /\ l.media = LastHandled(w).msg.id /\ ~l.confirmed
                              /\ \E i \in 1..Len(LastHandled(w).run) :
                                    LastHandled(w).run[i].face = l.face

\* a message on photo:uploaded that is not a delete and names a media id
NamesUpload(message) ==
    /\ message.json /\ message.id # Absent
    /\ message.channel = CHANNEL_PHOTO_UPLOADED /\ message.action # "deleted"

\* C17: a FAILED row carries an error message, and when the handling of an
\* upload event that named a media id has failed, that id has a FAILED row
\* whose error message is the failure's.
C17_NeverSilent ==
    /\ \A m \in DOMAIN analysis : analysis[m].status = "FAILED" => analysis[m].error # ""
    /\ \A w \in Workers :
        (/\ JustHandled(w)
         /\ NamesUpload(LastHandled(w).msg)
         /\ LastHandled(w).outcome \notin {"ok", "deleted"})
        => /\ StatusOf(analysis, LastHandled(w).msg.id) = "FAILED"
           /\ RowOf(analysis, LastHandled(w).msg.id).error = LastHandled(w).outcome

\* C18: when the handling of an upload has ended successfully the row is DONE
\* with face_count the number of faces detected in this run, and the event
\* published last carries the media id and that number.
C18_FaceCount ==
    \A w \in Workers : (JustHandled(w) /\ LastHandled(w).outcome = "ok") =>
        /\ LastHandled(w).status = "DONE"
        /\ LastHandled(w).count = Len(LastHandled(w).det)
        /\ Len(published) > 0
        /\ published[Len(published)] =
                [mediaId |-> LastHandled(w).msg.id, status |-> "DONE",
                 faceCount |-> Len(LastHandled(w).det)]

\* C18 witness: a successful run with faces of which one matched nobody
C18_Witness ==
    \E w \in active :
        /\ JustHandled(w)
        /\ LastHandled(w).outcome = "ok"
        /\ \E i \in 1..Len(LastHandled(w).run) : LastHandled(w).run[i].person = None

\* the last face of the run h for which the resolver answered p
LastFaceFor(h, p) ==
    LET I == {i \in 1..Len(h.run) : h.run[i].person = p}
    IN  h.run[CHOOSE i \in I : \A j \in I : j <= i].face

\* C19 as stated: after a successful run every face the resolver matched to
\* p has the unconfirmed link (media, p) with that face, and every face it
\* matched to nobody has no link.
C19_EveryMatchLinked ==
    \A w \in Workers : (JustHandled(w) /\ LastHandled(w).outcome = "ok") =>
        \A i \in 1..Len(LastHandled(w).run) :
            LET r == LastHandled(w).run[i]
            IN  IF r.person # None
                THEN \E l \in links : /\ l.media = LastHandled(w).msg.id
                                       /\ l.person = r.person
                                       /\ l.face = r.face /\ ~l.confirmed
                ELSE \A l \in links : l.face # r.face

\* C19 amended: after a successful run every person p the resolver answered
\* has one link (media, p), unconfirmed, with the last face that was matched
\* to p; the other faces of the run have no link.
C19_LastMatchLinked ==
    \A w \in Workers : (JustHandled(w) /\ LastHandled(w).outcome = "ok") =>
        LET h == LastHandled(w)
        IN  \A i \in 1..Len(h.run) :
                LET r == h.run[i]
                IN  IF r.person # None /\ LastFaceFor(h, r.person) = r.face
                    THEN /\ [media |-> h.msg.id, person |-> r.person,
                              face |-> r.face, confirmed |-> FALSE] \in links
                         /\ \A l \in links :
                                (l.media = h.msg.id /\ l.person = r.person)
                                    => l.face = r.face
                    ELSE \A l \in links : l.face # r.face

\* C19 witness: a successful run in which two faces were matched to the
\* same person
C19_Witness ==
    \E w \in active :
        /\ JustHandled(w)
        /\ LastHandled(w).outcome = "ok"
        /\ \E i, j \in 1..Len(LastHandled(w).run) :
            /\ i < j
            /\ LastHandled(w).run[i].person # None
            /\ LastHandled(w).run[i].person = LastHandled(w).run[j].person

\* C20: the steps that handle a delete event after it was read change no
\* AnalysisResult other than by removing it, add no face and no link, and
\* publish nothing.
C20_DeleteOnly ==
    [][\A w \in Workers :
        (/\ IsDeleteEvent(msg[w])
         /\ pc[w] \in {"delete", "except"}
         /\ pc'[w] = "listen")
        => /\ \A m \in DOMAIN analysis' : RowOf(analysis, m) = analysis'[m]
           /\ faces' \subseteq faces
           /\ links' \subseteq links
           /\ published' = published]_vars

\* the rows in PROCESSING that worker process w has set to PROCESSING
InProcessingBy(w) == {m \in claimed[w] : StatusOf(analysis, m) = "PROCESSING"}

\* C22: with one worker, when the loop is about to read a message no row
\* that this process set to PROCESSING is still in PROCESSING, and at most
\* one such row is in PROCESSING at any time.
C22_OneAtATime ==
    \A w \in active :
        /\ pc[w] = "listen" => InProcessingBy(w) = {}
        /\ Cardinality(InProcessingBy(w)) <= 1

\* C22 witness: the process is about to read a message after it has set the
\* rows of two photos to PROCESSING, one after the other
C22_Witness ==
    \E w \in active : pc[w] = "listen" /\ Cardinality(claimed[w]) = 2

\* C23: an event is published only by the publish step of a handling of an
\* upload whose row this handling has set to DONE; it names that media id,
\* ends the handling (so there is one event per handled upload at most) and
\* the handling is recorded as successful.
C23_PublishAfterDone ==
    [][published' # published =>
        \E w \in active :
            /\ pc[w] = "publish" /\ pc'[w] = "listen"
            /\ IsUpload(msg[w])
            /\ msg[w].id \in claimed[w]
            /\ StatusOf(analysis, msg[w].id) = "DONE"
            /\ published' = Append(published,
                    [mediaId |-> msg[w].id, status |-> "DONE",
                     faceCount |-> CountOf(analysis, msg[w].id)])
            /\ Len(hist'[w]) > 0
            /\ hist'[w][Len(hist'[w])].msg = msg[w]
            /\ hist'[w][Len(hist'[w])].outcome = "ok"
            /\ Len(published') <= nmsgs']_vars

\* C23 witness: two uploads were handled and each published its event
C23_Witness ==
    /\ Len(published) = 2
    /\ \E w \in active : JustHandled(w) /\ LastHandled(w).outcome = "ok"

C25_FacesUnassigned ==
    [][\A w \in Workers : (IsUpload(msg[w]) /\ pc[w] \notin {"listen", "start"}) =>
        /\ faces \subseteq faces'
        /\ \A f \in faces' \ faces :
            /\ f.person = None
            /\ f.media = msg[w].id
            /\ f.id = nextId
            /\ similar[w] # None => pc'[w] = "link"]_vars

\* C25 witness: a handled upload whose face was matched to a person and
\* linked, while the stored face has no person
C25_Witness ==
    \E w \in active :
        /\ JustHandled(w)
        /\ LastHandled(w).outcome = "ok"
        /\ \E i \in 1..Len(LastHandled(w).run) :
            /\ LastHandled(w).run[i].person # None
            /\ \E f \in faces : f.id = LastHandled(w).run[i].face /\ f.person = None
            /\ \E l \in links : l.face = LastHandled(w).run[i].face

\* C26: no step taken while an upload is handled alters a confirmed link:
\* it stays in photo_persons with confirmed = true and the same face.
C26_ConfirmedKept ==
    [][\A w \in Workers : (IsUpload(msg[w]) /\ pc[w] \notin {"listen", "start"}) =>
        \A l \in links : l.confirmed => l \in links']_vars

\* C27: a row in PENDING, PROCESSING or DONE carries no error message (the
\* message of an earlier failed attempt was cleared by the re-upload).
C27_ErrorCleared ==
    \A m \in DOMAIN analysis :
        analysis[m].status \in {"PENDING", "PROCESSING", "DONE"} => analysis[m].error = ""

\* ------------------------------------------------- two workers (SpecTwo)
\* both workers have ended the handling of an upload of m and read nothing since
BothHandled(m) ==
    \A w \in Workers :
        /\ JustHandled(w)
        /\ IsUpload(LastHandled(w).msg)
        /\ LastHandled(w).msg.id = m

\* C21: with two workers, in every interleaving of their steps a media id
\* has at most one AnalysisResult (analysis is keyed by media id) and a
\* (media, person) pair at most one link, and when both workers have ended
\* the handling of an upload of m the row of m is DONE or FAILED.
C21_ConcurrentUploads ==
    /\ \A l1 \in links, l2 \in links :
            (l1.media = l2.media /\ l1.person = l2.person) => l1 = l2
    /\ \A m \in Media : BothHandled(m) => StatusOf(analysis, m) \in {"DONE", "FAILED"}

\* C21 witness: both workers have handled an upload of m, and the two
\* handlings overlapped: when one of them ended successfully the other had
\* taken the row back to PENDING or PROCESSING, and both linked a face to
\* the same person
C21_Witness ==
    \E m \in Media :
        /\ BothHandled(m)
        /\ \E w \in Workers :
            /\ LastHandled(w).outcome = "ok"
            /\ LastHandled(w).status \in {"PENDING", "PROCESSING"}
        /\ \E p \in Persons : \A w \in Workers :
                \E i \in 1..Len(LastHandled(w).run) : LastHandled(w).run[i].person = p

\* -------------------------------------------- pipeline, fair (SpecLive)
\* no running handling is working on m
Orphaned(m) == \A w \in active : pc[w] \in {"start", "listen"} \/ media_id[w] # m

C14_OneLinkPerPair ==
    \A l1 \in links, l2 \in links :
        (l1.media = l2.media /\ l1.person = l2.person) => l1 = l2

\* C14 witness: the pair (m, p) of a seeded link was written again by the
\* pipeline and then by an assign of the pipeline's new face: its one link is
\* confirmed and backed by the new face
C14_Witness ==
    \E l \in links, k \in SeedLinks :
        /\ l.media = k.media /\ l.person = k.person
        /\ l.confirmed
        /\ l.face \notin {f.id : f \in SeedFaces}

\* -------------------------------------------------- resolver (SpecResolve)
\* the confirmed links of p that are backed by a stored face
SamplesOf(p) ==
    Cardinality({l \in links : /\ l.person = p /\ l.confirmed
                               /\ \E f \in faces : f.id = l.face})

\* persons of the queried owner with enough confirmed exemplars
Candidates ==
    {p \in persons : /\ PersonOwner[p] = resolved.owner
                     /\ SamplesOf(p) >= 1
                     /\ SamplesOf(p) >= cfg.min_samples}

\* nearest-exemplar distance of p to the last query
Nearest(p) == MinDistance(links, faces, p, resolved.q)

\* the store without the links of persons that have too few exemplars
PrunedLinks == {l \in links : SamplesOf(l.person) >= cfg.min_samples}

\* C8: a returned person has at least min_confirmed_samples confirmed links
\* backed by a face, and persons with fewer play no part in the answer: the
\* answer is one the resolver gives on the store without their links.
C8_MinSamples ==
    resolved.asked =>
        /\ resolved.result # None => resolved.result \in Candidates
        /\ resolved.result \in
             FindSimilarFace(PrunedLinks, faces, persons, resolved.q, resolved.owner, cfg)

\* C8 witness: a person is returned although an under-sampled person of the
\* same owner has a strictly nearer exemplar
C8_Witness ==
    /\ resolved.asked
    /\ resolved.result # None
    /\ \E p \in persons \ Candidates :
        /\ PersonOwner[p] = resolved.owner
        /\ SamplesOf(p) >= 1
        /\ Nearest(p) < Nearest(resolved.result)

\* C9: a returned person's nearest-exemplar distance is at most the threshold,
\* and a sole candidate exactly at the threshold is returned when single-person
\* matches are allowed.
C9_Threshold ==
    resolved.asked =>
        /\ resolved.result # None => Nearest(resolved.result) <= cfg.threshold
        /\ \A p \in Candidates :
            (Candidates = {p} /\ cfg.allow_single /\ Nearest(p) = cfg.threshold)
                => resolved.result = p

\* C9 witness: a person is returned at a distance equal to the threshold
C9_Witness ==
    /\ resolved.asked
    /\ resolved.result # None
    /\ Nearest(resolved.result) = cfg.threshold

\* C10: with exactly two candidates at distances d1 <= d2, d1 within the
\* threshold, the answer is none if d1 > d2 * ratio and a candidate at
\* distance d1 otherwise.
C10_Margin ==
    resolved.asked =>
        \A a \in Candidates, b \in Candidates :
            (a # b /\ Candidates = {a, b} /\ Nearest(a) <= Nearest(b)
                   /\ Nearest(a) <= cfg.threshold)
            => IF Nearest(a) * cfg.ratio_den > Nearest(b) * cfg.ratio_num
               THEN resolved.result = None
               ELSE /\ resolved.result \in Candidates
                    /\ Nearest(resolved.result) = Nearest(a)

\* C10 witness: two candidates with d1 = d2 * ratio, d1 > 0, and the best is returned
C10_Witness ==
    /\ resolved.asked
    /\ \E a \in Candidates, b \in Candidates :
        /\ a # b
        /\ Nearest(a) > 0
        /\ Nearest(a) * cfg.ratio_den = Nearest(b) * cfg.ratio_num
        /\ resolved.result = a

\* C11: with exactly one candidate the answer is none when single-person
\* matches are not allowed, whatever the distance; when they are allowed the
\* sole candidate is returned exactly when its nearest-exemplar distance is
\* at most the threshold.
C11_SinglePerson ==
    resolved.asked =>
        \A p \in Candidates :
            Candidates = {p} =>
                IF ~cfg.allow_single
                THEN resolved.result = None
                ELSE /\ resolved.result \in {p, None}
                     /\ resolved.result = p <=> Nearest(p) <= cfg.threshold

\* C11 witness: a sole candidate at distance 0 is refused because
\* single-person matches are not allowed
C11_Witness ==
    /\ resolved.asked
    /\ ~cfg.allow_single
    /\ resolved.result = None
    /\ \E p \in Candidates : Candidates = {p} /\ Nearest(p) = 0

\* the distances from the last query to the faces behind p's confirmed links
ExemplarDists(p) ==
    {Abs(f.emb - resolved.q) :
        f \in {g \in faces : \E l \in links :
                    l.person = p /\ l.confirmed /\ l.face = g.id}}

\* d is the distance of p's nearest exemplar
IsNearest(p, d) == d \in ExemplarDists(p) /\ \A e \in ExemplarDists(p) : d <= e

\* C12: a returned person is a candidate of the queried owner, and no
\* candidate has an exemplar nearer to the query than the returned person's
\* nearest exemplar.
C12_NearestOwned ==
    (resolved.asked /\ resolved.result # None) =>
        /\ PersonOwner[resolved.result] = resolved.owner
        /\ resolved.result \in Candidates
        /\ \E d \in ExemplarDists(resolved.result) :
                /\ IsNearest(resolved.result, d)
                /\ \A p \in Candidates : \A e \in ExemplarDists(p) : d <= e

\* C12 witness: the returned person's nearest exemplar is nearer than the
\* other candidate's while its farthest exemplar is farther away, and a
\* person of another owner has an exemplar nearer still
C12_Witness ==
    /\ resolved.asked
    /\ resolved.result # None
    /\ \E p \in Candidates \ {resolved.result} :
            \E d \in ExemplarDists(p), e \in ExemplarDists(resolved.result) :
                /\ IsNearest(p, d)
                /\ ~IsNearest(resolved.result, e)
                /\ d < e
    /\ \E p \in persons :
            /\ PersonOwner[p] # resolved.owner
            /\ \E d \in ExemplarDists(p) : \A e \in ExemplarDists(resolved.result) : d < e

\* ------------------------------------------- person API (SpecAdmin), C28
\* C28: an assign or ignore request leaves every face that an assign gave a
\* confirmed link backed by a confirmed link, and out of every user's list
\* of unassigned faces.
C28_StaysAssigned ==
    [][(pc' = pc /\ nmsgs' # nmsgs) =>
        \A f \in faces :
            (f.person # None /\ \E l \in links : l.face = f.id /\ l.confirmed) =>
                /\ \E l \in links' : l.face = f.id /\ l.confirmed
                /\ \A u \in Owners :
                    f.id \notin list_unassigned_faces(faces', analysis', links', ignored', u)]_vars

====
